---- MODULE Spec2Model ----
(***************************************************************************)
(* A model of the two stateful cores of examples/development:              *)
(*   - util.rs: AsyncLoader, the single-flight cancellable task runner;    *)
(*   - lib.rs:  the staggered spring animation (Spring, WordAnimating,     *)
(*              Text, global_animation_loop).                              *)
(* Spec is the loader's state machine; the animation's follows it.         *)
(***************************************************************************)
EXTENDS Integers, Sequences, FiniteSets, TLC

VARIABLES
    nextId,     \* util.rs:17  static ID: AtomicUsize
    loading,    \* util.rs:26  AsyncLoader::loading, one Option<AsyncState> per loader
    tasks,      \* the futures handed to spawn_local (util.rs:63), in spawn order
    log,        \* the order in which abort handles were invoked and tasks spawned
    visible,    \* lib.rs:278  TEXT_VISIBLE
    clock,      \* lib.rs:298  Date::now() - global_start, in ms, as of the last tick
    texts,      \* every Text that Text::new built (lib.rs:161), in construction order
    registry,   \* lib.rs:271  ACTIVE_TEXTS, as indices into texts
    paused,     \* ms of the turns skipped at lib.rs:295-297 since the last turn that ran
    word,       \* a WordAnimating on its own (lib.rs:76), updated directly
    wordConfig  \* the AnimationConfig that word was built from

loaderVars == <<nextId, loading, tasks, log>>

animVars == <<visible, clock, texts, registry, paused>>

wordVars == <<word, wordConfig>>

vars == <<nextId, loading, tasks, log, visible, clock, texts, registry, paused, word,
          wordConfig>>

(***************************************************************************)
(* Bounds of the model.                                                    *)
(***************************************************************************)
NumLoaders == 2     \* AsyncLoader instances alive in the process
MaxLoads == 3       \* load() calls explored (caps the ID counter)
MaxTexts == 2       \* Text::new calls explored
MaxWords == 2       \* words of a text
MaxTicks == 8       \* the clock is explored up to MaxTicks intervals
ConvergeWords == 3  \* words of the text whose convergence is followed
MaxSettleTicks == 500   \* ticks a word is followed for after its activation

Loaders == 1..NumLoaders

(***************************************************************************)
(* Option<T>: None is the empty sequence, Some(x) the one-element one.     *)
(***************************************************************************)
None == <<>>
Some(x) == <<x>>
IsSome(o) == Len(o) = 1
Unwrap(o) == o[1]

(***************************************************************************)
(* util.rs:19  ID.fetch_add(1, SeqCst): the value the counter holds next.  *)
(***************************************************************************)
FetchAddStuck(ctr) == ctr

FetchAdd(ctr) == ctr + 1

(***************************************************************************)
(* util.rs:16-22  AsyncState::new(handle): the id is the counter's value   *)
(* before the increment.  A handle is the index in tasks of the future it  *)
(* aborts.                                                                 *)
(***************************************************************************)
AsyncStateNew(ctr, handle) == [id |-> ctr, handle |-> handle]

(***************************************************************************)
(* futures::future::AbortHandle::abort on the task of handle h: sets the   *)
(* task's aborted flag.  h may name a task not yet spawned (load creates   *)
(* the handle before spawn_local), which no sequence entry stands for yet. *)
(***************************************************************************)
Abort(ts, h) ==
    [i \in 1..Len(ts) |-> IF i = h THEN [ts[i] EXCEPT !.aborted = TRUE] ELSE ts[i]]

(***************************************************************************)
(* util.rs:40-48  AsyncLoader::replace(value) on loader l, as the triple   *)
(* of what it leaves: the loaders' slots, the tasks, the log.              *)
(***************************************************************************)
ReplaceNoAbort(ld, ts, lg, l, value) ==
    [loading |-> [ld EXCEPT ![l] = value], tasks |-> ts, log |-> lg]

ReplaceKeep(ld, ts, lg, l, value) ==
    IF IsSome(ld[l])
    THEN [loading |-> ld,
          tasks   |-> Abort(ts, Unwrap(ld[l]).handle),
          log     |-> Append(lg, <<"abort", Unwrap(ld[l]).handle>>)]
    ELSE [loading |-> [ld EXCEPT ![l] = value], tasks |-> ts, log |-> lg]

Replace(ld, ts, lg, l, value) ==
    IF IsSome(ld[l])
    THEN [loading |-> [ld EXCEPT ![l] = value],
          tasks   |-> Abort(ts, Unwrap(ld[l]).handle),
          log     |-> Append(lg, <<"abort", Unwrap(ld[l]).handle>>)]
    ELSE [loading |-> [ld EXCEPT ![l] = value], tasks |-> ts, log |-> lg]

(***************************************************************************)
(* util.rs:63-78  the future load() spawns: it owns the abortable future,  *)
(* the id and a clone of the loader's Mutable.                             *)
(***************************************************************************)
NewTask(l, id) == [loader |-> l, id |-> id, aborted |-> FALSE, result |-> "pending"]

(***************************************************************************)
(* util.rs:50-79  AsyncLoader::load(fut) on loader l.                      *)
(***************************************************************************)
LoadSpawnFirst(ld, ts, lg, ctr, l) ==
    LET h     == Len(ts) + 1
        state == AsyncStateNew(ctr, h)
        r     == Replace(ld, Append(ts, NewTask(l, state.id)),
                         Append(lg, <<"spawn", h>>), l, Some(state))
    IN  [loading |-> r.loading, tasks |-> r.tasks, log |-> r.log]

LoadResult(ld, ts, lg, ctr, l) ==
    LET h     == Len(ts) + 1
        state == AsyncStateNew(ctr, h)
        r     == Replace(ld, ts, lg, l, Some(state))
    IN  [loading |-> r.loading,
         tasks   |-> Append(r.tasks, NewTask(l, state.id)),
         log     |-> Append(r.log, <<"spawn", h>>)]

Load(l) ==
    /\ nextId < MaxLoads
    /\ LET r == LoadResult(loading, tasks, log, nextId, l)
       IN  /\ loading' = r.loading
           /\ tasks' = r.tasks
           /\ log' = r.log
    /\ nextId' = FetchAdd(nextId)
    /\ UNCHANGED <<animVars, wordVars>>

(***************************************************************************)
(* util.rs:36-38  AsyncLoader::cancel() on loader l.                       *)
(***************************************************************************)
CancelByLoad(l) == Load(l)

Cancel(l) ==
    /\ LET r == Replace(loading, tasks, log, l, None)
       IN  /\ loading' = r.loading
           /\ tasks' = r.tasks
           /\ log' = r.log
    /\ UNCHANGED <<nextId, animVars, wordVars>>

(***************************************************************************)
(* util.rs:65-74  the Ok(()) arm: what the slots are after the task of id  *)
(* `id` on loader l completed normally.                                    *)
(***************************************************************************)
OnOkNoCheck(ld, l, id) == [ld EXCEPT ![l] = None]

OnOkNever(ld, l, id) == ld

OnOkWrongCmp(ld, l, id) ==
    IF IsSome(ld[l]) /\ Unwrap(ld[l]).id # id
    THEN [ld EXCEPT ![l] = None]
    ELSE ld

OnOkAllSlots(ld, l, id) ==
    IF IsSome(ld[l]) /\ Unwrap(ld[l]).id = id
    THEN [m \in DOMAIN ld |-> None]
    ELSE ld

OnOk(ld, l, id) ==
    IF IsSome(ld[l]) /\ Unwrap(ld[l]).id = id
    THEN [ld EXCEPT ![l] = None]
    ELSE ld

(***************************************************************************)
(* util.rs:64-74  fut.await yields Ok(()).  Abortable polls the inner      *)
(* future whenever the abort flag was clear when the poll began, so a task *)
(* whose handle is invoked during its own last poll (the future itself     *)
(* calls load or cancel) still yields Ok: an aborted task may complete.    *)
(***************************************************************************)
TaskOk(t) ==
    /\ tasks[t].result = "pending"
    /\ loading' = OnOk(loading, tasks[t].loader, tasks[t].id)
    /\ tasks' = [tasks EXCEPT ![t].result = "ok"]
    /\ UNCHANGED <<nextId, log, animVars, wordVars>>

(***************************************************************************)
(* util.rs:76  fut.await yields Err(Aborted): only after the handle was    *)
(* invoked.  The arm is empty.                                             *)
(***************************************************************************)
TaskErr(t) ==
    /\ tasks[t].result = "pending"
    /\ tasks[t].aborted
    /\ tasks' = [tasks EXCEPT ![t].result = "err"]
    /\ UNCHANGED <<nextId, loading, log, animVars, wordVars>>

(***************************************************************************)
(* util.rs:81-83  AsyncLoader::is_loading(): the signal's current value.   *)
(***************************************************************************)
IsLoading(l) == IsSome(loading[l])

(***************************************************************************)
(* util.rs:30-34  AsyncLoader::new() for every loader; the counter starts  *)
(* at 0 (util.rs:17) and nothing is spawned.                               *)
(***************************************************************************)
LoaderInit ==
    /\ nextId = 0
    /\ loading = [l \in Loaders |-> None]
    /\ tasks = <<>>
    /\ log = <<>>

(***************************************************************************)
(* lib.rs: numbers.  An f32 length, velocity or opacity is an integer      *)
(* count of 1/10000; a time (elapsed, delay, start_delay, dt) is an        *)
(* integer count of milliseconds.  Division truncates toward zero.         *)
(***************************************************************************)
Epsilon == 10       \* lib.rs:116  0.001, the settle threshold (also lib.rs:112)
F32Epsilon == 0     \* lib.rs:107  f32::EPSILON (1.2e-7) is below one unit
DtMs == 16          \* lib.rs:287  dt = 0.016 s (lib.rs:288: the interval's 16 ms)
MsPerSecond == 1000 \* lib.rs:299  / 1000.0
One == MsPerSecond * Epsilon    \* 1.0 (lib.rs:123)

Abs(x) == IF x < 0 THEN -x ELSE x
Min(a, b) == IF a < b THEN a ELSE b
Max(a, b) == IF a > b THEN a ELSE b
TruncDiv(a, b) == IF a >= 0 THEN a \div b ELSE -((-a) \div b)

(***************************************************************************)
(* lib.rs:26-36  the AnimationConfig values explored: a stiff spring whose *)
(* words all start at once (it settles in 3 updates), and a softer one     *)
(* whose words are staggered by one interval after a start delay of two    *)
(* (it settles in 5).                                                      *)
(***************************************************************************)
ConfigAtOnce ==
    [mass |-> 1, stiffness |-> 3900, damping |-> 62, initial |-> -100, target |-> 0,
     delay_factor |-> 0, start_delay |-> 0, opacity_duration |-> 32]

ConfigStaggered ==
    [mass |-> 1, stiffness |-> 2000, damping |-> 50, initial |-> -50, target |-> 0,
     delay_factor |-> 16, start_delay |-> 32, opacity_duration |-> 48]

Configs == {ConfigAtOnce, ConfigStaggered}

(***************************************************************************)
(* lib.rs:380-389  the AnimationConfig of text(): initial -2.0, delays of  *)
(* 0.2 s and 0.01 s a word, opacity over 0.5 s.                            *)
(***************************************************************************)
ConfigText ==
    [mass |-> 1, stiffness |-> 400, damping |-> 11, initial |-> -2 * One, target |-> 0,
     delay_factor |-> 10, start_delay |-> 200, opacity_duration |-> 500]

(***************************************************************************)
(* lib.rs:52-61  Spring::new_with_config: the target starts at initial.    *)
(***************************************************************************)
SpringNewWithConfig(config) ==
    [mass |-> config.mass, stiffness |-> config.stiffness, damping |-> config.damping,
     value |-> config.initial, target |-> config.initial, velocity |-> 0]

(***************************************************************************)
(* lib.rs:64-70  Spring::update(dt): one Euler step, dt in ms.             *)
(***************************************************************************)
SpringUpdateUndamped(s, dt) ==
    LET displacement == s.value - s.target
        force        == -(s.stiffness * displacement)
        acceleration == TruncDiv(force, s.mass)
        velocity     == s.velocity + TruncDiv(acceleration * dt, MsPerSecond)
        value        == s.value + TruncDiv(velocity * dt, MsPerSecond)
    IN  [s EXCEPT !.velocity = velocity, !.value = value]

SpringUpdate(s, dt) ==
    LET displacement == s.value - s.target
        force        == -(s.stiffness * displacement) - s.damping * s.velocity
        acceleration == TruncDiv(force, s.mass)
        velocity     == s.velocity + TruncDiv(acceleration * dt, MsPerSecond)
        value        == s.value + TruncDiv(velocity * dt, MsPerSecond)
    IN  [s EXCEPT !.velocity = velocity, !.value = value]

(***************************************************************************)
(* lib.rs:86-96  WordAnimating::new(word, delay, config).                  *)
(***************************************************************************)
WordNew(delay, config) ==
    [delay              |-> delay,
     spring             |-> SpringNewWithConfig(config),
     spring_value       |-> config.initial,
     opacity_value      |-> 0,
     has_reached_target |-> FALSE]

(***************************************************************************)
(* lib.rs:115-118  the flag after the settle test: set, never cleared.     *)
(***************************************************************************)
ReachedAssign(was, spring) ==
    Abs(spring.value - spring.target) < Epsilon /\ Abs(spring.velocity) < Epsilon

Reached(was, spring) ==
    IF Abs(spring.value - spring.target) < Epsilon /\ Abs(spring.velocity) < Epsilon
    THEN TRUE
    ELSE was

(***************************************************************************)
(* lib.rs:103-127  WordAnimating::update(elapsed, dt, config).             *)
(***************************************************************************)
WordUpdate(w, elapsed, dt, config) ==
    LET retargeted == IF Abs(w.spring.target - config.target) > F32Epsilon
                      THEN [w.spring EXCEPT !.target = config.target]
                      ELSE w.spring
        spring     == SpringUpdate(retargeted, dt)
        new_val    == spring.value
        progress   == Max(Min(TruncDiv((elapsed - w.delay) * One, config.opacity_duration),
                              One), 0)
    IN  [w EXCEPT !.spring = spring,
                  !.spring_value = IF Abs(new_val - w.spring_value) > Epsilon
                                   THEN new_val ELSE w.spring_value,
                  !.has_reached_target = Reached(w.has_reached_target, spring),
                  !.opacity_value = progress]

(***************************************************************************)
(* lib.rs:147-169  Text::new: n words, word i (from 0) delayed by          *)
(* i * delay_factor.  Sequences count from 1: word i is animated_words[i+1]*)
(* and pending_index and active_indices hold the code's indices.           *)
(***************************************************************************)
TextNewRecord(config, n) ==
    [config             |-> config,
     animated_words     |-> [i \in 1..n |-> WordNew((i - 1) * config.delay_factor, config)],
     animation_complete |-> FALSE,
     pending_index      |-> 0,
     active_indices     |-> <<>>]

(***************************************************************************)
(* lib.rs:193-203  the activation scan: the pending index after it.        *)
(***************************************************************************)
ScanPendingOne(words, pending_index, elapsed) ==
    IF pending_index < Len(words) /\ elapsed >= words[pending_index + 1].delay
    THEN pending_index + 1
    ELSE pending_index

RECURSIVE ScanPending(_, _, _)
ScanPending(words, pending_index, elapsed) ==
    IF pending_index < Len(words) /\ elapsed >= words[pending_index + 1].delay
    THEN ScanPending(words, pending_index + 1, elapsed)
    ELSE pending_index

(***************************************************************************)
(* lib.rs:194-202  the pushes of the activation scan: active_indices after *)
(* the indices from..to-1 were pushed, in order.                           *)
(***************************************************************************)
PushRangeLastOnly(active, from, to) ==
    IF to > from THEN Append(active, to - 1) ELSE active

PushRangeFromStart(active, from, to) ==
    active \o [k \in 1..to |-> k - 1]

PushRange(active, from, to) ==
    active \o [k \in 1..(to - from) |-> from + k - 1]

(***************************************************************************)
(* Vec::swap_remove(i), i from 0.                                          *)
(***************************************************************************)
SwapRemoveNoop(v, i) == v

SwapRemoveFront(v, i) == Tail(v)

SwapRemove(v, i) ==
    LET front == SubSeq(v, 1, Len(v) - 1)
    IN  IF i + 1 = Len(v) THEN front ELSE [front EXCEPT ![i + 1] = v[Len(v)]]

(***************************************************************************)
(* lib.rs:210-217  the update loop from index i - 1 down to 0 over         *)
(* st = [words, active].                                                   *)
(***************************************************************************)
RECURSIVE UpdateActive(_, _, _, _, _)
UpdateActive(st, i, elapsed, dt, config) ==
    IF i = 0
    THEN st
    ELSE LET idx     == st.active[i]
             updated == WordUpdate(st.words[idx + 1], elapsed, dt, config)
             words   == [st.words EXCEPT ![idx + 1] = updated]
             active  == IF updated.has_reached_target
                        THEN SwapRemove(st.active, i - 1)
                        ELSE st.active
         IN  UpdateActive([words |-> words, active |-> active], i - 1, elapsed, dt, config)

(***************************************************************************)
(* lib.rs:220-223  animation_complete after the completion test: set,      *)
(* never cleared.                                                          *)
(***************************************************************************)
CompleteAfterScanOnly(was, pending_index, total_words, active) ==
    IF pending_index = total_words THEN TRUE ELSE was

CompleteAfterNonEmpty(was, pending_index, total_words, active) ==
    IF total_words > 0 /\ pending_index = total_words /\ active = <<>> THEN TRUE ELSE was

CompleteAfter(was, pending_index, total_words, active) ==
    IF pending_index = total_words /\ active = <<>> THEN TRUE ELSE was

(***************************************************************************)
(* lib.rs:182-224  Text::update_all(global_elapsed, dt).                   *)
(***************************************************************************)
UpdateAll(text, global_elapsed, dt) ==
    LET elapsed == global_elapsed - text.config.start_delay
    IN  IF elapsed < 0
        THEN text
        ELSE LET total_words   == Len(text.animated_words)
                 pending_index == ScanPending(text.animated_words, text.pending_index, elapsed)
                 pushed        == PushRange(text.active_indices, text.pending_index,
                                            pending_index)
                 st            == UpdateActive([words |-> text.animated_words, active |-> pushed],
                                               Len(pushed), elapsed, dt, text.config)
             IN  [text EXCEPT
                     !.animated_words = st.words,
                     !.pending_index = pending_index,
                     !.active_indices = st.active,
                     !.animation_complete =
                         CompleteAfter(text.animation_complete, pending_index,
                                       total_words, st.active)]

(***************************************************************************)
(* lib.rs:147-174  Text::new(content, config) for a content of n words:    *)
(* builds the text and pushes it on ACTIVE_TEXTS.                          *)
(***************************************************************************)
TextNew(config, n) ==
    /\ Len(texts) < MaxTexts
    /\ texts' = Append(texts, TextNewRecord(config, n))
    /\ registry' = Append(registry, Len(texts) + 1)
    /\ UNCHANGED <<visible, clock, paused, loaderVars, wordVars>>

(***************************************************************************)
(* lib.rs:326-333  the IntersectionObserver callback.                      *)
(***************************************************************************)
SetVisible(is_intersecting) ==
    /\ visible' = is_intersecting
    /\ UNCHANGED <<clock, texts, registry, paused, loaderVars, wordVars>>

(***************************************************************************)
(* lib.rs:301-309  texts.retain(..) at global_elapsed: every registered    *)
(* text is updated once, and kept unless complete.                         *)
(***************************************************************************)
Registered(reg) == {reg[k] : k \in 1..Len(reg)}

RetainTexts(txs, reg, global_elapsed, dt) ==
    [t \in 1..Len(txs) |->
        IF t \in Registered(reg) THEN UpdateAll(txs[t], global_elapsed, dt) ELSE txs[t]]

IsIncomplete(txs, t) == ~txs[t].animation_complete

RetainRegistryAll(txs, reg) == reg

RetainRegistry(txs, reg) == SelectSeq(reg, LAMBDA t : IsIncomplete(txs, t))

(***************************************************************************)
(* lib.rs:292-310  one turn of global_animation_loop: the interval fires   *)
(* adv ms after the last turn (16 ms, or later when the timer is late).    *)
(* A skipped turn (lib.rs:295-297) reads no clock and touches nothing.     *)
(***************************************************************************)
LoopTurnNoGate(adv) ==
    /\ clock' = clock + adv
    /\ LET updated == RetainTexts(texts, registry, clock', DtMs)
       IN  /\ texts' = updated
           /\ registry' = RetainRegistry(updated, registry)
    /\ paused' = IF visible THEN 0 ELSE paused + adv
    /\ UNCHANGED <<visible, loaderVars, wordVars>>

LoopTurn(adv) ==
    /\ clock' = clock + adv
    /\ IF ~visible
       THEN /\ paused' = paused + adv
            /\ UNCHANGED <<texts, registry>>
       ELSE LET updated == RetainTexts(texts, registry, clock', DtMs)
            IN  /\ texts' = updated
                /\ registry' = RetainRegistry(updated, registry)
                /\ paused' = 0
    /\ UNCHANGED <<visible, loaderVars, wordVars>>

Tick(adv) ==
    /\ clock + adv <= MaxTicks * DtMs
    /\ LoopTurn(adv)

(***************************************************************************)
(* lib.rs:271, 278, 290  no text registered, visible, the loop just        *)
(* started.                                                                *)
(***************************************************************************)
AnimInit ==
    /\ visible = TRUE
    /\ clock = 0
    /\ texts = <<>>
    /\ registry = <<>>
    /\ paused = 0

(***************************************************************************)
(* lib.rs:86-96  one word of its own, built from any explored config at    *)
(* the delay of word 0, 1 or 2.                                            *)
(***************************************************************************)
WordIdle ==
    /\ wordConfig = ConfigAtOnce
    /\ word = WordNew(0, ConfigAtOnce)

WordInit ==
    /\ wordConfig \in Configs
    /\ \E i \in 0..MaxWords : word = WordNew(i * wordConfig.delay_factor, wordConfig)

(***************************************************************************)
(* lib.rs:103-127  WordAnimating::update called on the word at an elapsed  *)
(* time of some interval, whether or not the word has settled.             *)
(***************************************************************************)
WordStep(k) ==
    /\ word' = WordUpdate(word, k * DtMs, DtMs, wordConfig)
    /\ UNCHANGED <<wordConfig, loaderVars, animVars>>

Init == LoaderInit /\ AnimInit /\ WordIdle

Next ==
    \/ \E l \in Loaders : Load(l)
    \/ \E l \in Loaders : Cancel(l)
    \/ \E t \in 1..Len(tasks) : TaskOk(t)
    \/ \E t \in 1..Len(tasks) : TaskErr(t)

Spec == Init /\ [][Next]_vars

AnimNext ==
    \/ \E config \in Configs : \E n \in 0..MaxWords : TextNew(config, n)
    \/ \E b \in BOOLEAN : SetVisible(b)
    \/ \E adv \in {DtMs, 2 * DtMs} : Tick(adv)

AnimSpec == Init /\ [][AnimNext]_vars

WordNext == \E k \in 0..MaxTicks : WordStep(k)

WordSpecInit == LoaderInit /\ AnimInit /\ WordInit

WordSpec == WordSpecInit /\ [][WordNext]_vars

(***************************************************************************)
(* lib.rs:379-390, 286-311  a text() of ConvergeWords words built as the   *)
(* loop starts, the gate visible throughout, and the interval firing every *)
(* 16 ms until every word has been followed for MaxSettleTicks ticks past  *)
(* its activation.                                                         *)
(***************************************************************************)
ConvergeHorizon ==
    ConfigText.start_delay + ConvergeWords * ConfigText.delay_factor
        + (MaxSettleTicks + 1) * DtMs

ConvergeStart ==
    /\ visible = TRUE
    /\ clock = 0
    /\ texts = <<TextNewRecord(ConfigText, ConvergeWords)>>
    /\ registry = <<1>>
    /\ paused = 0

ConvergeTick ==
    /\ clock < ConvergeHorizon
    /\ LoopTurn(DtMs)

ConvergeInit == LoaderInit /\ ConvergeStart /\ WordIdle

ConvergeSpec == ConvergeInit /\ [][ConvergeTick]_vars

(***************************************************************************)
(* Vocabulary of the loader's claims.                                      *)
(***************************************************************************)
Tasks == 1..Len(tasks)

\* The task the loader's slot names (0: none).
Tracked(l) == IF IsSome(loading[l]) THEN Unwrap(loading[l]).handle ELSE 0

\* A submitted task that has neither completed nor been aborted.
Live(t) == tasks[t].result = "pending" /\ ~tasks[t].aborted

\* This step is a load() on loader l: it spawned task Len(tasks) + 1 there.
LoadStep(l) == Len(tasks') = Len(tasks) + 1 /\ tasks'[Len(tasks')].loader = l

\* This step is the end of task t (either arm of the match).
EndStep(t) == tasks[t].result = "pending" /\ tasks'[t].result # "pending"

\* This step is the natural completion of task t (the Ok arm).
OkStep(t) == tasks[t].result = "pending" /\ tasks'[t].result = "ok"

(***************************************************************************)
(* C1: supersession.  A load() on a loader that tracks task A invokes A's  *)
(* abort handle; the end of an aborted (superseded or cancelled) task, by  *)
(* either arm, changes no loader's slot, hence no is_loading(); and a      *)
(* loader's is_loading() turns false only by the natural completion of the *)
(* task it tracks or by cancel(), and the task it tracks changes only by   *)
(* those or by a load() on it.                                             *)
(***************************************************************************)
C1_SupersededStep ==
    /\ \A l \in Loaders :
          (LoadStep(l) /\ IsLoading(l)) =>
              /\ tasks'[Tracked(l)].aborted
              /\ Tracked(l)' = Len(tasks')
    /\ \A t \in Tasks :
          (tasks[t].aborted /\ EndStep(t)) => loading' = loading
    /\ \A l \in Loaders :
          (IsLoading(l) /\ ~IsLoading(l)') =>
              \/ OkStep(Tracked(l))
              \/ Cancel(l)
    /\ \A l \in Loaders :
          (IsLoading(l) /\ Tracked(l)' # Tracked(l)) =>
              \/ LoadStep(l)
              \/ OkStep(Tracked(l))
              \/ Cancel(l)

C1_Supersession == [][C1_SupersededStep]_vars

\* A was superseded by B on the same loader, completed normally anyway, and
\* B is still what the loader tracks.
C1_Witness ==
    \E a \in Tasks : \E b \in Tasks :
        /\ a < b
        /\ tasks[a].loader = tasks[b].loader
        /\ tasks[a].aborted
        /\ tasks[a].result = "ok"
        /\ Tracked(tasks[b].loader) = b
        /\ Live(b)

(***************************************************************************)
(* C2: load() ordering.  Every load() invokes the abort handle of the task *)
(* the loader tracked (if any) before it spawns the new task; when it      *)
(* returns, the new task is the tracked one, is_loading() is true and the  *)
(* new task has not run (it is pending and not aborted).                   *)
(***************************************************************************)
C2_LoadStep ==
    \A l \in Loaders :
        LoadStep(l) =>
            LET h == Len(tasks') IN
            /\ loading'[l] = Some([id |-> tasks'[h].id, handle |-> h])
            /\ IsLoading(l)'
            /\ tasks'[h].result = "pending"
            /\ ~tasks'[h].aborted
            /\ IF IsLoading(l)
               THEN /\ tasks'[Tracked(l)].aborted
                    /\ log' = log \o << <<"abort", Tracked(l)>>, <<"spawn", h>> >>
               ELSE log' = Append(log, <<"spawn", h>>)

C2_LoadOrdering == [][C2_LoadStep]_vars

\* A load() has just superseded a tracked task: the abort of the old task is
\* logged right before the spawn of the new one, which is tracked and has not run.
C2_Witness ==
    /\ Len(log) >= 2
    /\ log[Len(log) - 1][1] = "abort"
    /\ log[Len(log)][1] = "spawn"
    /\ LET h == log[Len(log)][2] IN
          /\ h = Len(tasks)
          /\ Tracked(tasks[h].loader) = h
          /\ Live(h)
          /\ tasks[log[Len(log) - 1][2]].loader = tasks[h].loader

(***************************************************************************)
(* C3: natural completion.  When a task completes normally and its id is   *)
(* the id of its loader's tracked state, the slot is cleared and           *)
(* is_loading() is false; and in every state, a loader whose most recently *)
(* loaded task has completed normally is not loading.                      *)
(***************************************************************************)
LastTaskOf(l) ==
    IF \E t \in Tasks : tasks[t].loader = l
    THEN CHOOSE t \in Tasks :
            /\ tasks[t].loader = l
            /\ \A u \in Tasks : tasks[u].loader = l => u <= t
    ELSE 0

C3_CompletionStep ==
    \A t \in Tasks :
        LET l == tasks[t].loader IN
        (OkStep(t) /\ IsLoading(l) /\ Unwrap(loading[l]).id = tasks[t].id) =>
            /\ loading'[l] = None
            /\ ~IsLoading(l)'

C3_LastCompleted ==
    \A l \in Loaders :
        (LastTaskOf(l) # 0 /\ tasks[LastTaskOf(l)].result = "ok") => ~IsLoading(l)

C3_NaturalCompletion == []C3_LastCompleted /\ [][C3_CompletionStep]_vars

\* The most recent task of a loader completed normally while it was the
\* tracked one (its handle was never invoked), after an earlier task of the
\* same loader.
C3_Witness ==
    \E l \in Loaders :
        /\ LastTaskOf(l) > 1
        /\ tasks[LastTaskOf(l)].result = "ok"
        /\ ~tasks[LastTaskOf(l)].aborted
        /\ \E u \in Tasks : u < LastTaskOf(l) /\ tasks[u].loader = l
        /\ ~IsLoading(l)

(***************************************************************************)
(* C4: cancel().  In any state, after cancel() the loader's slot is empty, *)
(* is_loading() is false and the task that was tracked (if any) has had    *)
(* its abort handle invoked; and no task's end ever turns a loader's       *)
(* is_loading() from false to true.                                        *)
(***************************************************************************)
C4_CancelStep ==
    /\ \A l \in Loaders :
          Cancel(l) =>
              /\ loading'[l] = None
              /\ ~IsLoading(l)'
              /\ IsLoading(l) => tasks'[Tracked(l)].aborted
    /\ \A t \in Tasks : \A l \in Loaders :
          (EndStep(t) /\ ~IsLoading(l)) => ~IsLoading(l)'

C4_Cancel == [][C4_CancelStep]_vars

\* A tracked task was cancelled (its abort is the last logged event and no
\* load followed), it has since ended, and the loader is not loading.
C4_Witness ==
    \E t \in Tasks :
        /\ Len(log) > 0
        /\ log[Len(log)] = <<"abort", t>>
        /\ tasks[t].aborted
        /\ tasks[t].result # "pending"
        /\ LastTaskOf(tasks[t].loader) = t
        /\ ~IsLoading(tasks[t].loader)

(***************************************************************************)
(* C5: cancel() on a loader that tracks nothing changes nothing: every     *)
(* slot, every task's abort flag, the log of invoked handles and the       *)
(* counter stay as they were, and is_loading() stays false.                *)
(***************************************************************************)
C5_IdleCancelStep ==
    \A l \in Loaders :
        (~IsLoading(l) /\ Cancel(l)) =>
            /\ loading' = loading
            /\ tasks' = tasks
            /\ log' = log
            /\ nextId' = nextId
            /\ ~IsLoading(l)'

C5_CancelIdle == [][C5_IdleCancelStep]_vars

\* A loader tracks nothing (its only task was cancelled and ended) while
\* another loader tracks a live task that cancel() on the first must not abort.
C5_Witness ==
    \E l \in Loaders : \E t \in Tasks :
        /\ ~IsLoading(l)
        /\ LastTaskOf(l) # 0
        /\ tasks[t].loader # l
        /\ Tracked(tasks[t].loader) = t
        /\ Live(t)

(***************************************************************************)
(* C6: in every state, is_loading() is true iff the loader's slot names a  *)
(* task of that loader that is pending and not aborted; the slot never     *)
(* names a task that has completed or been aborted.                        *)
(***************************************************************************)
C6_IsLoadingIffLive ==
    \A l \in Loaders :
        /\ IsLoading(l) <=>
              \E t \in Tasks :
                  /\ loading[l] = Some([id |-> tasks[t].id, handle |-> t])
                  /\ tasks[t].loader = l
                  /\ Live(t)
        /\ IsSome(loading[l]) =>
              /\ Tracked(l) \in Tasks
              /\ tasks[Tracked(l)].result = "pending"
              /\ ~tasks[Tracked(l)].aborted

\* Both directions in one state: a loader that tracks a live task after an
\* earlier one was aborted, and a loader whose task completed and is idle.
C6_Witness ==
    \E l \in Loaders : \E m \in Loaders :
        /\ IsLoading(l)
        /\ Tracked(l) > 1
        /\ \E a \in Tasks : tasks[a].loader = l /\ tasks[a].aborted
        /\ ~IsLoading(m)
        /\ LastTaskOf(m) # 0
        /\ tasks[LastTaskOf(m)].result = "ok"

(***************************************************************************)
(* C7: single flight.  In every state each loader has at most one          *)
(* submitted task that is neither completed nor aborted, and that task is  *)
(* the tracked one; and a load() on a loader that tracks a task leaves, in *)
(* the same step, the new task tracked and the old one aborted.            *)
(***************************************************************************)
LiveTasksOf(l) == {t \in Tasks : tasks[t].loader = l /\ Live(t)}

C7_AtMostOneLive ==
    \A l \in Loaders :
        /\ Cardinality(LiveTasksOf(l)) <= 1
        /\ \A t \in LiveTasksOf(l) : Tracked(l) = t

C7_AtomicSwapStep ==
    \A l \in Loaders :
        (LoadStep(l) /\ IsLoading(l)) =>
            /\ Tracked(l)' = Len(tasks')
            /\ Tracked(l)' # Tracked(l)
            /\ tasks'[Tracked(l)].aborted
            /\ LiveTasksOf(l)' = {Len(tasks')}

C7_SingleFlight == []C7_AtMostOneLive /\ [][C7_AtomicSwapStep]_vars

\* Three submissions to one loader: the first two were superseded, the third
\* is the only live task and is the tracked one.
C7_Witness ==
    \E l \in Loaders :
        /\ Cardinality({t \in Tasks : tasks[t].loader = l}) >= 3
        /\ LiveTasksOf(l) = {LastTaskOf(l)}
        /\ Tracked(l) = LastTaskOf(l)

(***************************************************************************)
(* C8: generation ids strictly increase with the order of the load()       *)
(* calls, on the same loader or on different ones, so no two submitted     *)
(* tasks share an id.                                                      *)
(***************************************************************************)
C8_IdsIncrease ==
    \A t \in Tasks : \A u \in Tasks :
        t < u => tasks[t].id < tasks[u].id

\* Loads alternated between two loaders.
C8_Witness ==
    /\ Len(tasks) >= 3
    /\ tasks[1].loader # tasks[2].loader
    /\ tasks[3].loader = tasks[1].loader

(***************************************************************************)
(* Vocabulary of the animation's claims.                                   *)
(***************************************************************************)
TextIds == 1..Len(texts)

\* This step is a turn of the animation loop (only Tick moves the clock).
TickStep == clock' # clock

\* Every word of the text is settled.
AllSettled(text) ==
    \A w \in 1..Len(text.animated_words) : text.animated_words[w].has_reached_target

\* next_pending_index == len(words) and every word is settled.
AllDone(text) == text.pending_index = Len(text.animated_words) /\ AllSettled(text)

\* The tick ending in this step's clock runs the text's update past the
\* start-delay test: the gate is visible and global_elapsed - start_delay >= 0.
EligibleTick(t) == visible /\ clock' - texts[t].config.start_delay >= 0

(***************************************************************************)
(* C9 as stated: complete never reverts, and a tick sets complete to true  *)
(* iff at the end of that tick next_pending_index == len(words) and every  *)
(* word is settled.                                                        *)
(***************************************************************************)
C9_OriginalStep ==
    \A t \in TextIds :
        /\ texts[t].animation_complete => texts'[t].animation_complete
        /\ (TickStep /\ ~texts[t].animation_complete) =>
              (texts'[t].animation_complete <=> AllDone(texts'[t]))

C9_Original == [][C9_OriginalStep]_vars

(***************************************************************************)
(* C9, amended: complete never reverts, and a tick sets complete to true   *)
(* iff the tick is an eligible one for the text (the gate is visible and   *)
(* global_elapsed - start_delay >= 0) and at its end next_pending_index == *)
(* len(words) and every word is settled.                                   *)
(***************************************************************************)
C9_AmendedStep ==
    \A t \in TextIds :
        /\ texts[t].animation_complete => texts'[t].animation_complete
        /\ (TickStep /\ ~texts[t].animation_complete) =>
              (texts'[t].animation_complete <=> (EligibleTick(t) /\ AllDone(texts'[t])))

C9_CompleteMonotone == [][C9_AmendedStep]_vars

\* A text of two staggered words has become complete, after its words
\* settled on different ticks, while another text is still animating.
C9_Witness ==
    \E t \in TextIds : \E u \in TextIds :
        /\ texts[t].config = ConfigStaggered
        /\ Len(texts[t].animated_words) = 2
        /\ texts[t].animation_complete
        /\ AllDone(texts[t])
        /\ ~texts[u].animation_complete
        /\ texts[u].pending_index > 0

(***************************************************************************)
(* C10: once a word's has_reached_target is true it is true in every later *)
(* state, whatever updates of the word and whatever ticks, visibility      *)
(* changes and registrations follow.                                       *)
(***************************************************************************)
C10_SettledStep ==
    /\ word.has_reached_target => word'.has_reached_target
    /\ \A t \in TextIds : \A w \in 1..Len(texts[t].animated_words) :
          texts[t].animated_words[w].has_reached_target =>
              texts'[t].animated_words[w].has_reached_target

C10_SettledStays == [][C10_SettledStep]_vars

\* The word settled and was updated again: its spring has since left the
\* settle thresholds, and the flag is still set.
C10_Witness ==
    /\ word.has_reached_target
    /\ ~(/\ Abs(word.spring.value - word.spring.target) < Epsilon
         /\ Abs(word.spring.velocity) < Epsilon)

\* The indices (from 0) of the words of a text.
WordIds(text) == 0..(Len(text.animated_words) - 1)

\* The indices the active list holds.
ActiveSet(text) == {text.active_indices[k] : k \in 1..Len(text.active_indices)}

\* The words that have ever been activated: a word is updated on the tick
\* that activates it, and its first update moves the spring's target from
\* initial to the config's target (lib.rs:107-109), where it stays.
Activated(text) ==
    {i \in WordIds(text) :
        \/ i \in ActiveSet(text)
        \/ text.animated_words[i + 1].spring.target # text.config.initial
        \/ text.animated_words[i + 1].has_reached_target}

(***************************************************************************)
(* C11: in every state and for every text, the words that have ever been   *)
(* activated are exactly those of index below next_pending_index: words    *)
(* are activated in ascending index order with none skipped.               *)
(***************************************************************************)
C11_ActivatedIsPrefix ==
    \A t \in TextIds :
        Activated(texts[t]) = {i \in WordIds(texts[t]) : i < texts[t].pending_index}

\* Word 0 of a staggered text has been activated and word 1 has not.
C11_Witness ==
    \E t \in TextIds :
        /\ Len(texts[t].animated_words) = 2
        /\ texts[t].pending_index = 1
        /\ Activated(texts[t]) = {0}

(***************************************************************************)
(* C12: a turn of the loop taken while the visibility flag is false        *)
(* changes no text (next_pending_index, active set, every word's spring,   *)
(* settled flag and published values, complete) and not the registry;      *)
(* hence neither does any number of such turns in a row.                   *)
(***************************************************************************)
C12_HiddenTickStep ==
    (TickStep /\ ~visible) =>
        /\ texts' = texts
        /\ registry' = registry

C12_HiddenTickFrame == [][C12_HiddenTickStep]_vars

\* Two or more turns were skipped in a row while a registered text had a
\* word in motion and another still pending.
C12_Witness ==
    /\ ~visible
    /\ paused >= 2 * DtMs
    /\ \E k \in 1..Len(registry) :
          /\ texts[registry[k]].active_indices # <<>>
          /\ texts[registry[k]].pending_index < Len(texts[registry[k]].animated_words)

\* The pending index a tick leaves when it activates by an elapsed time of
\* `elapsed` (lib.rs:184-203).
PendingAt(text, elapsed) ==
    IF elapsed < 0
    THEN text.pending_index
    ELSE ScanPending(text.animated_words, text.pending_index, elapsed)

(***************************************************************************)
(* C13: on the first visible tick after a pause, every registered text     *)
(* activates the words it would have activated had the pause not happened: *)
(* those whose delay is reached by the elapsed time less the time the gate *)
(* was reporting not-visible.                                              *)
(***************************************************************************)
C13_ResumeStep ==
    (TickStep /\ visible /\ paused > 0) =>
        \A t \in Registered(registry) :
            texts'[t].pending_index =
                PendingAt(texts[t], clock' - paused - texts[t].config.start_delay)

C13_NoJumpOnResume == [][C13_ResumeStep]_vars

(***************************************************************************)
(* C14: a text with zero words that is not yet complete becomes complete   *)
(* on a tick exactly when the tick is an eligible one (the gate is visible *)
(* and global_elapsed - start_delay >= 0), hence on its first eligible     *)
(* tick and on no earlier one; the tick activates nothing.                 *)
(***************************************************************************)
C14_EmptyTextStep ==
    \A t \in TextIds :
        (TickStep /\ Len(texts[t].animated_words) = 0 /\ ~texts[t].animation_complete) =>
            /\ texts'[t].animation_complete <=> EligibleTick(t)
            /\ texts'[t].pending_index = 0
            /\ texts'[t].active_indices = <<>>

C14_EmptyTextCompletes == [][C14_EmptyTextStep]_vars

\* Two zero-word texts went through the same visible tick: the one without
\* a start delay became complete and left the registry, the one created
\* before it, whose start delay is still ahead, stayed incomplete.
C14_Witness ==
    \E t \in TextIds : \E u \in TextIds :
        /\ u < t
        /\ Len(texts[t].animated_words) = 0
        /\ Len(texts[u].animated_words) = 0
        /\ texts[t].animation_complete
        /\ t \notin Registered(registry)
        /\ clock < texts[u].config.start_delay
        /\ ~texts[u].animation_complete

\* The clock of the tick that activates word i of a text when the interval
\* fires every DtMs from 0: the first multiple of DtMs at which
\* global_elapsed - start_delay >= delay (lib.rs:184, 194-196).
ActivationClock(text, i) ==
    LET due == text.config.start_delay + text.animated_words[i + 1].delay
    IN  ((due + DtMs - 1) \div DtMs) * DtMs

(***************************************************************************)
(* C15: with the configuration of text() (mass 1, stiffness 400, damping   *)
(* 11, initial -2, target 0, delay_factor 0.01, start_delay 0.2), dt =     *)
(* 0.016 and the gate visible, every word of the text is activated on the  *)
(* first tick that reaches its delay and is settled fewer than             *)
(* MaxSettleTicks ticks after that tick; once every word has had that      *)
(* long, the text is complete.                                             *)
(***************************************************************************)
C15_Converges ==
    \A t \in TextIds :
        texts[t].config = ConfigText =>
            /\ \A i \in WordIds(texts[t]) :
                  /\ i < texts[t].pending_index
                        <=> clock >= ActivationClock(texts[t], i)
                  /\ clock >= ActivationClock(texts[t], i) + (MaxSettleTicks - 1) * DtMs
                        => texts[t].animated_words[i + 1].has_reached_target
            /\ clock >= ConvergeHorizon => texts[t].animation_complete

\* The three-word text is complete, every word settled within the tick
\* count of its activation, and the words did not all start on one tick.
C15_Witness ==
    \E t \in TextIds :
        /\ texts[t].config = ConfigText
        /\ Len(texts[t].animated_words) >= 3
        /\ ActivationClock(texts[t], 0) < ActivationClock(texts[t], 1)
        /\ texts[t].animation_complete
        /\ AllDone(texts[t])
        /\ clock < ActivationClock(texts[t], 0) + (MaxSettleTicks - 1) * DtMs

(***************************************************************************)
(* C16: a settled word is not in its text's active set, and no step, tick  *)
(* or other, changes a settled word: its spring, its presentation value    *)
(* and its opacity value stay as they were when it settled.                *)
(***************************************************************************)
C16_SettledNotActive ==
    \A t \in TextIds : \A i \in WordIds(texts[t]) :
        texts[t].animated_words[i + 1].has_reached_target => i \notin ActiveSet(texts[t])

C16_SettledFrozenStep ==
    \A t \in TextIds : \A i \in WordIds(texts[t]) :
        texts[t].animated_words[i + 1].has_reached_target =>
            texts'[t].animated_words[i + 1] = texts[t].animated_words[i + 1]

C16_SettledNeverUpdated == []C16_SettledNotActive /\ [][C16_SettledFrozenStep]_vars

\* Word 0 has settled and left the active list while word 1 of the same
\* registered text is still in motion, so the text is ticked again.
C16_Witness ==
    \E t \in Registered(registry) :
        /\ Len(texts[t].animated_words) = 2
        /\ texts[t].animated_words[1].has_reached_target
        /\ ~texts[t].animated_words[2].has_reached_target
        /\ texts[t].active_indices = <<1>>
        /\ clock < MaxTicks * DtMs

(***************************************************************************)
(* C17: in every state and for every text, next_pending_index is at most   *)
(* the number of words, every index in the active list is below            *)
(* next_pending_index (and not below 0) and appears there once; and no     *)
(* step decreases next_pending_index.                                      *)
(***************************************************************************)
C17_PendingAndActiveInRange ==
    \A t \in TextIds :
        LET active == texts[t].active_indices
        IN  /\ texts[t].pending_index <= Len(texts[t].animated_words)
            /\ \A k \in 1..Len(active) : 0 <= active[k] /\ active[k] < texts[t].pending_index
            /\ \A k \in 1..Len(active) : \A j \in 1..Len(active) :
                  active[k] = active[j] => k = j

C17_PendingGrowsStep ==
    \A t \in TextIds : texts'[t].pending_index >= texts[t].pending_index

C17_PendingBounds == []C17_PendingAndActiveInRange /\ [][C17_PendingGrowsStep]_vars

\* Every word of a two-word text has been activated, on different ticks,
\* and both are still in motion.
C17_Witness ==
    \E t \in TextIds :
        /\ texts[t].config = ConfigStaggered
        /\ texts[t].pending_index = 2
        /\ texts[t].active_indices = <<0, 1>>
        /\ texts[t].animated_words[1].spring # texts[t].animated_words[2].spring

(***************************************************************************)
(* C18: a visible tick runs update_all once, at the tick's elapsed time,   *)
(* on every registered text and on no other, and leaves in the registry,   *)
(* in their order, exactly the texts that are not complete after it; in    *)
(* every state the registry names each text at most once and names no      *)
(* complete text; and no step changes a complete text.                     *)
(***************************************************************************)
C18_RegistryHoldsIncomplete ==
    /\ \A k \in 1..Len(registry) :
          /\ registry[k] \in TextIds
          /\ ~texts[registry[k]].animation_complete
    /\ \A k \in 1..Len(registry) : \A j \in 1..Len(registry) :
          registry[k] = registry[j] => k = j

C18_VisibleTickStep ==
    /\ (TickStep /\ visible) =>
          /\ \A t \in TextIds :
                texts'[t] = IF t \in Registered(registry)
                            THEN UpdateAll(texts[t], clock', DtMs)
                            ELSE texts[t]
          /\ registry' = SelectSeq(registry, LAMBDA t : ~texts'[t].animation_complete)
    /\ \A t \in TextIds : texts[t].animation_complete => texts'[t] = texts[t]

C18_TickAndRemove == []C18_RegistryHoldsIncomplete /\ [][C18_VisibleTickStep]_vars

\* The text registered second became complete and was removed, while the
\* one registered first is still in motion and still registered.
C18_Witness ==
    /\ Len(texts) = 2
    /\ registry = <<1>>
    /\ texts[2].animation_complete
    /\ Len(texts[2].animated_words) > 0
    /\ texts[1].active_indices # <<>>

(***************************************************************************)
(* C19: word i of a text has delay i * delay_factor; a step changes word i *)
(* only if it is a visible tick whose global_elapsed - start_delay is at   *)
(* least that delay; a tick with global_elapsed - start_delay < 0 changes  *)
(* nothing of the text; and after a visible tick that runs the scan of a   *)
(* registered text, the next pending word, if any, has a delay greater     *)
(* than the tick's elapsed time.                                           *)
(***************************************************************************)
C19_WordDelays ==
    \A t \in TextIds : \A i \in WordIds(texts[t]) :
        texts[t].animated_words[i + 1].delay = i * texts[t].config.delay_factor

C19_TimingStep ==
    \A t \in TextIds :
        LET elapsed == clock' - texts[t].config.start_delay
            words   == texts[t].animated_words
            pending == texts'[t].pending_index
        IN  /\ \A i \in WordIds(texts[t]) :
                  texts'[t].animated_words[i + 1] # words[i + 1] =>
                      /\ TickStep /\ visible
                      /\ elapsed >= i * texts[t].config.delay_factor
            /\ (TickStep /\ elapsed < 0) => texts'[t] = texts[t]
            /\ (TickStep /\ EligibleTick(t) /\ t \in Registered(registry)) =>
                  \/ pending = Len(words)
                  \/ words[pending + 1].delay > elapsed

C19_ActivationTiming == []C19_WordDelays /\ [][C19_TimingStep]_vars

\* One tick, a long one, reached the delays of both words of a staggered
\* text and activated both: their springs have moved in step.
C19_Witness ==
    \E t \in TextIds :
        /\ texts[t].config = ConfigStaggered
        /\ texts[t].active_indices = <<0, 1>>
        /\ texts[t].animated_words[1].spring = texts[t].animated_words[2].spring
        /\ texts[t].animated_words[1].spring.value # texts[t].config.initial

(***************************************************************************)
(* C20: on a visible tick that runs the update of a registered text, the   *)
(* words in the active list after the scan (those already in it and those  *)
(* the scan activates) are each changed to the result of one update at the *)
(* tick's elapsed time, every other word is unchanged, and the active list *)
(* after the tick holds, once each, exactly those of them that are not     *)
(* settled after their update.                                             *)
(***************************************************************************)
C20_UpdateStep ==
    \A t \in Registered(registry) :
        (TickStep /\ EligibleTick(t)) =>
            LET elapsed == clock' - texts[t].config.start_delay
                words   == texts[t].animated_words
                scanned == ActiveSet(texts[t]) \cup
                               {i \in WordIds(texts[t]) :
                                   /\ texts[t].pending_index <= i
                                   /\ i < texts'[t].pending_index}
            IN  /\ \A i \in WordIds(texts[t]) :
                      texts'[t].animated_words[i + 1] =
                          IF i \in scanned
                          THEN WordUpdate(words[i + 1], elapsed, DtMs, texts[t].config)
                          ELSE words[i + 1]
                /\ ActiveSet(texts'[t]) =
                      {i \in scanned : ~texts'[t].animated_words[i + 1].has_reached_target}
                /\ Len(texts'[t].active_indices) = Cardinality(ActiveSet(texts'[t]))

C20_EachActiveOnce == [][C20_UpdateStep]_vars

\* Both words of a text were activated together and settled on the same
\* tick, each removed from the active list during the one pass.
C20_Witness ==
    \E t \in TextIds :
        /\ texts[t].config = ConfigAtOnce
        /\ Len(texts[t].animated_words) = 2
        /\ AllDone(texts[t])
        /\ texts[t].active_indices = <<>>
        /\ texts[t].animated_words[1] = texts[t].animated_words[2]

(***************************************************************************)
(* C21: loaders are isolated although they draw ids from one counter.  A   *)
(* loader's slot always names a task submitted to that loader, under that  *)
(* task's id.  A step changes the slot of at most one loader, and only as  *)
(* a load() on that loader, the natural completion of a task submitted to  *)
(* that loader, or a cancel() on it; and a step aborts a task only if it   *)
(* changes the slot of the loader the task was submitted to.  Hence no     *)
(* load, cancel or completion on one loader changes another loader's       *)
(* tracked state or is_loading().                                          *)
(***************************************************************************)
C21_SlotNamesOwnTask ==
    \A l \in Loaders :
        IsLoading(l) =>
            /\ Tracked(l) \in Tasks
            /\ tasks[Tracked(l)].loader = l
            /\ tasks[Tracked(l)].id = Unwrap(loading[l]).id

C21_IsolationStep ==
    /\ \A l \in Loaders : \A m \in Loaders :
          (loading'[l] # loading[l] /\ loading'[m] # loading[m]) => l = m
    /\ \A l \in Loaders :
          loading'[l] # loading[l] =>
              \/ LoadStep(l)
              \/ /\ Len(tasks') = Len(tasks)
                 /\ \E t \in Tasks : tasks[t].loader = l /\ OkStep(t)
                 /\ \A t \in Tasks : EndStep(t) => tasks[t].loader = l
              \/ /\ Len(tasks') = Len(tasks)
                 /\ \A t \in Tasks : ~EndStep(t)
                 /\ ~IsLoading(l)'
    /\ \A l \in Loaders :
          (LoadStep(l) \/ \E t \in Tasks : tasks[t].loader = l /\ EndStep(t)) =>
              \A m \in Loaders \ {l} :
                  /\ loading'[m] = loading[m]
                  /\ IsLoading(m)' = IsLoading(m)
    /\ \A t \in Tasks :
          (tasks'[t].aborted /\ ~tasks[t].aborted) =>
              /\ Tracked(tasks[t].loader) = t
              /\ loading'[tasks[t].loader] # loading[tasks[t].loader]

C21_LoadersIsolated == []C21_SlotNamesOwnTask /\ [][C21_IsolationStep]_vars

\* A task of one loader completed and cleared that loader while the other
\* loader, whose task was submitted earlier under a smaller id, still
\* tracks it and reports loading.
C21_Witness ==
    \E t \in Tasks : \E u \in Tasks :
        /\ u < t
        /\ tasks[u].loader # tasks[t].loader
        /\ tasks[t].result = "ok"
        /\ ~tasks[t].aborted
        /\ ~IsLoading(tasks[t].loader)
        /\ Tracked(tasks[u].loader) = u
        /\ Live(u)

====
